---- MODULE Spec2Model ----
(***************************************************************************)
(* Model of crates/workspace/src/pane_group.rs: the PaneGroup tree         *)
(* (split / remove / panes), the flex weights shared through               *)
(* Rc<RefCell<Vec<f32>>>, the layout and paint pass of PaneAxisElement and *)
(* the divider drag handlers that paint registers.                         *)
(*                                                                         *)
(* A Member is a record: [kind |-> "Pane", pane |-> p] or                  *)
(* [kind |-> "Axis", axis |-> "Horizontal" | "Vertical",                   *)
(*  members |-> <<Member, ...>>, flexes |-> rc].  rc names the             *)
(* Rc<RefCell<Vec<f32>>> allocation of the axis; the vectors live in the   *)
(* variable flexes (rc -> sequence of weights).  Child indices are 0-based *)
(* as in the source; members[k + 1] is the child at index k.  An f32 is    *)
(* modelled as an exact rational <<numerator, denominator>>.               *)
(***************************************************************************)
EXTENDS Integers, Sequences, FiniteSets, TLC

\* ------------------------------------------------------------------ bounds
\* Number of panes ever created (pane identities are never reused).
MaxPanes == 4

\* Number of panes ever created in a run with render passes and drags.
MaxDragPanes == 3

\* Panes created plus drag ticks (pointer-move events on a divider) in a run.
MaxDragOps == 5

\* The size of the window, which the root element fills, in pixels.
WindowSize == [x |-> 300, y |-> 240]

\* drag.position along the resize axis, in pixels
Positions == {60, 200}

\* Panes created, and drag ticks, in a run that exercises the arithmetic of
\* the drag handler over several window sizes.
MaxTickPanes == 2
MaxTicks == 2

\* the window sizes (square) and pointer positions of those runs
TickWindows == {158, 170, 198, 200, 300}
TickPositions == {0, 79, 85, 120, 300}

Directions == {"Up", "Down", "Left", "Right"}

VARIABLES
    root,       \* PaneGroup.root : Member
    flexes,     \* rc -> Vec<f32>, the contents of every live Rc<RefCell<..>>
    nextPane,   \* identity of the next pane the workspace creates
    window,     \* the size the window offers the root element, in pixels
    handlers,   \* the on_drag closures of the mouse regions of the last paint
    ticks,      \* number of drag ticks so far
    lastCall    \* the last operation: its arguments, its result and, for
                \* split and remove, the tree and the flexes it was called on

vars == <<root, flexes, nextPane, window, handlers, ticks, lastCall>>

\* ------------------------------------------------------------- rationals
RECURSIVE Gcd(_, _)
Gcd(a, b) == IF b = 0 THEN a ELSE Gcd(b, a % b)

Abs(n) == IF n < 0 THEN -n ELSE n

Norm(n, d) ==
    LET s == IF d < 0 THEN -1 ELSE 1
        g == Gcd(Abs(n), Abs(d))
    IN  <<(s * n) \div g, (s * d) \div g>>

Rat(n) == <<n, 1>>

\* the operations cancel common factors before they multiply
RAdd(a, b) ==
    LET g == Gcd(a[2], b[2])
    IN  Norm(a[1] * (b[2] \div g) + b[1] * (a[2] \div g), (a[2] \div g) * b[2])
RNeg(a) == <<-a[1], a[2]>>
RSub(a, b) == RAdd(a, RNeg(b))
RMul(a, b) ==
    LET g1 == Gcd(Abs(a[1]), b[2])
        g2 == Gcd(Abs(b[1]), a[2])
    IN  Norm((a[1] \div g1) * (b[1] \div g2), (a[2] \div g2) * (b[2] \div g1))
RDiv(a, b) == RMul(a, IF b[1] < 0 THEN <<-b[2], -b[1]>> ELSE <<b[2], b[1]>>)
RLess(a, b) ==
    LET g == Gcd(a[2], b[2])
    IN  a[1] * (b[2] \div g) < b[1] * (a[2] \div g)
RMax(a, b) == IF RLess(a, b) THEN b ELSE a
RMin(a, b) == IF RLess(b, a) THEN b ELSE a

\* ---------------------------------------------------------- Vec helpers
\* Vec::insert(idx, e) and Vec::remove(idx), idx 0-based
\* mutant: Vec::insert appends instead of inserting at idx
VecInsert_at_end(s, idx, e) == s \o <<e>>

VecInsert(s, idx, e) == SubSeq(s, 1, idx) \o <<e>> \o SubSeq(s, idx + 1, Len(s))

\* mutant: removes the element after idx
VecRemove_off_by_one(s, idx) == SubSeq(s, 1, idx + 1) \o SubSeq(s, idx + 3, Len(s))

VecRemove(s, idx) == SubSeq(s, 1, idx) \o SubSeq(s, idx + 2, Len(s))

\* vec![1.; n]
Uniform(n) == [i \in 1..n |-> Rat(1)]

\* ------------------------------------------------------- SplitDirection
SplitDirection_axis(direction) ==
    IF direction \in {"Up", "Down"} THEN "Vertical" ELSE "Horizontal"

\* mutant: the flag inverted
SplitDirection_increasing_inverted(direction) ==
    IF direction \in {"Left", "Up"} THEN TRUE ELSE FALSE

SplitDirection_increasing(direction) ==
    IF direction \in {"Left", "Up"} THEN FALSE ELSE TRUE

\* --------------------------------------------------------------- Member
MemberPane(p) == [kind |-> "Pane", pane |-> p]

\* PaneAxis::new: the axis and the contents of its freshly allocated flexes
PaneAxis_new(axis, members, rc) ==
    [member |-> [kind |-> "Axis", axis |-> axis, members |-> members, flexes |-> rc],
     vec |-> Uniform(Len(members))]

\* mutant: the old pane always first
Member_new_axis_old_first(old_pane, new_pane, direction, rc) ==
    LET axis == IF direction \in {"Up", "Down"} THEN "Vertical" ELSE "Horizontal"
    IN  PaneAxis_new(axis, <<MemberPane(old_pane), MemberPane(new_pane)>>, rc)

Member_new_axis(old_pane, new_pane, direction, rc) ==
    LET axis == IF direction \in {"Up", "Down"} THEN "Vertical" ELSE "Horizontal"
        members == IF direction \in {"Up", "Left"}
                   THEN <<MemberPane(new_pane), MemberPane(old_pane)>>
                   ELSE <<MemberPane(old_pane), MemberPane(new_pane)>>
    IN  PaneAxis_new(axis, members, rc)

RECURSIVE Member_collect_panes(_)
Member_collect_panes(member) ==
    IF member.kind = "Pane" THEN <<member.pane>>
    ELSE LET F[i \in 0..Len(member.members)] ==
                 IF i = 0 THEN <<>>
                 ELSE F[i - 1] \o Member_collect_panes(member.members[i])
         IN  F[Len(member.members)]

PaneGroup_panes(r) == Member_collect_panes(r)

Range(s) == {s[i] : i \in DOMAIN s}

RECURSIVE Member_contains(_, _)
Member_contains(member, needle) ==
    IF member.kind = "Pane" THEN member.pane = needle
    ELSE \E i \in 1..Len(member.members) : Member_contains(member.members[i], needle)

\* every PaneAxis of the tree below (and including) member
RECURSIVE AxesOf(_)
AxesOf(member) ==
    IF member.kind = "Pane" THEN {}
    ELSE {member} \cup UNION {AxesOf(member.members[i]) : i \in 1..Len(member.members)}

\* the Rc allocations the tree holds
RcsOf(member) == {a.flexes : a \in AxesOf(member)}

\* ------------------------------------------------------ PaneAxis::split
\* All return [ok, axis, heap]: Ok(()) or Err, self after the call, and the
\* flex vectors after the call.  The fresh Rc of a new nested axis is named
\* by the new pane.

\* mutant: the sibling is inserted and the flexes are left as they were
PaneAxis_split_leaf_no_reset(self, heap, idx, old_pane, new_pane, direction) ==
    IF SplitDirection_axis(direction) = self.axis
    THEN LET at == IF SplitDirection_increasing(direction) THEN idx + 1 ELSE idx
             ms == VecInsert(self.members, at, MemberPane(new_pane))
         IN  [ok |-> TRUE, axis |-> [self EXCEPT !.members = ms], heap |-> heap]
    ELSE LET n == Member_new_axis(old_pane, new_pane, direction, new_pane)
         IN  [ok |-> TRUE,
              axis |-> [self EXCEPT !.members[idx + 1] = n.member],
              heap |-> (new_pane :> n.vec) @@ heap]

\* mutant: the flexes of self are reset in both branches
PaneAxis_split_leaf_always_reset(self, heap, idx, old_pane, new_pane, direction) ==
    IF SplitDirection_axis(direction) = self.axis
    THEN LET at == IF SplitDirection_increasing(direction) THEN idx + 1 ELSE idx
             ms == VecInsert(self.members, at, MemberPane(new_pane))
         IN  [ok |-> TRUE,
              axis |-> [self EXCEPT !.members = ms],
              heap |-> [heap EXCEPT ![self.flexes] = Uniform(Len(ms))]]
    ELSE LET n == Member_new_axis(old_pane, new_pane, direction, new_pane)
         IN  [ok |-> TRUE,
              axis |-> [self EXCEPT !.members[idx + 1] = n.member],
              heap |-> (new_pane :> n.vec) @@
                       [heap EXCEPT ![self.flexes] = Uniform(Len(self.members))]]

\* the arm of the match for a leaf child equal to old_pane, at index idx
\* mutant: the wrap arm inserts the new axis next to the old leaf instead of
\* putting it in the leaf's place
PaneAxis_split_leaf_keeps_old(self, heap, idx, old_pane, new_pane, direction) ==
    IF SplitDirection_axis(direction) = self.axis
    THEN LET at == IF SplitDirection_increasing(direction) THEN idx + 1 ELSE idx
             ms == VecInsert(self.members, at, MemberPane(new_pane))
         IN  [ok |-> TRUE,
              axis |-> [self EXCEPT !.members = ms],
              heap |-> [heap EXCEPT ![self.flexes] = Uniform(Len(ms))]]
    ELSE LET n == Member_new_axis(old_pane, new_pane, direction, new_pane)
         IN  [ok |-> TRUE,
              axis |-> [self EXCEPT !.members = VecInsert(self.members, idx, n.member)],
              heap |-> (new_pane :> n.vec) @@ heap]

\* mutant: the matched leaf is wrapped in a new axis whatever the direction,
\* no sibling is ever added
PaneAxis_split_leaf_always_wraps(self, heap, idx, old_pane, new_pane, direction) ==
    LET n == Member_new_axis(old_pane, new_pane, direction, new_pane)
    IN  [ok |-> TRUE,
         axis |-> [self EXCEPT !.members[idx + 1] = n.member],
         heap |-> (new_pane :> n.vec) @@ heap]

PaneAxis_split_leaf(self, heap, idx, old_pane, new_pane, direction) ==
    IF SplitDirection_axis(direction) = self.axis
    THEN LET at == IF SplitDirection_increasing(direction) THEN idx + 1 ELSE idx
             ms == VecInsert(self.members, at, MemberPane(new_pane))
         IN  [ok |-> TRUE,
              axis |-> [self EXCEPT !.members = ms],
              heap |-> [heap EXCEPT ![self.flexes] = Uniform(Len(ms))]]
    ELSE LET n == Member_new_axis(old_pane, new_pane, direction, new_pane)
         IN  [ok |-> TRUE,
              axis |-> [self EXCEPT !.members[idx + 1] = n.member],
              heap |-> (new_pane :> n.vec) @@ heap]

\* the for loop, from index idx on
RECURSIVE PaneAxis_split(_, _, _, _, _), PaneAxis_split_from(_, _, _, _, _, _)
PaneAxis_split_from(self, heap, idx, old_pane, new_pane, direction) ==
    IF idx >= Len(self.members)
    THEN [ok |-> FALSE, axis |-> self, heap |-> heap]
    ELSE LET member == self.members[idx + 1] IN
         IF member.kind = "Axis"
         THEN LET r == PaneAxis_split(member, heap, old_pane, new_pane, direction) IN
              IF r.ok
              THEN [ok |-> TRUE,
                    axis |-> [self EXCEPT !.members[idx + 1] = r.axis],
                    heap |-> r.heap]
              ELSE PaneAxis_split_from(self, heap, idx + 1, old_pane, new_pane, direction)
         ELSE IF member.pane = old_pane
              THEN PaneAxis_split_leaf(self, heap, idx, old_pane, new_pane, direction)
              ELSE PaneAxis_split_from(self, heap, idx + 1, old_pane, new_pane, direction)

PaneAxis_split(self, heap, old_pane, new_pane, direction) ==
    PaneAxis_split_from(self, heap, 0, old_pane, new_pane, direction)

\* ----------------------------------------------------- PaneAxis::remove
\* The scan of the for loop: [found_pane, remove_member, axis, heap]
\* (remove_member = -1 stands for None).
RECURSIVE PaneAxis_remove(_, _, _), PaneAxis_remove_scan(_, _, _, _)

\* mutant: the survivor of a collapsed child axis is not spliced in
PaneAxis_remove_scan_drops_survivor(self, heap, idx, pane_to_remove) ==
    IF idx >= Len(self.members)
    THEN [found_pane |-> FALSE, remove_member |-> -1, axis |-> self, heap |-> heap]
    ELSE LET member == self.members[idx + 1] IN
         IF member.kind = "Axis"
         THEN LET r == PaneAxis_remove(member, heap, pane_to_remove) IN
              IF r.ok
              THEN [found_pane |-> TRUE, remove_member |-> -1,
                    axis |-> [self EXCEPT !.members[idx + 1] = r.axis],
                    heap |-> r.heap]
              ELSE PaneAxis_remove_scan(self, heap, idx + 1, pane_to_remove)
         ELSE IF member.pane = pane_to_remove
              THEN [found_pane |-> TRUE, remove_member |-> idx,
                    axis |-> self, heap |-> heap]
              ELSE PaneAxis_remove_scan(self, heap, idx + 1, pane_to_remove)

\* mutant: splicing the survivor of a collapsed child axis resets the weights
\* of the axis it is spliced into
PaneAxis_remove_scan_resets_parent(self, heap, idx, pane_to_remove) ==
    IF idx >= Len(self.members)
    THEN [found_pane |-> FALSE, remove_member |-> -1, axis |-> self, heap |-> heap]
    ELSE LET member == self.members[idx + 1] IN
         IF member.kind = "Axis"
         THEN LET r == PaneAxis_remove(member, heap, pane_to_remove) IN
              IF r.ok
              THEN [found_pane |-> TRUE, remove_member |-> -1,
                    axis |-> [self EXCEPT !.members[idx + 1] =
                                  IF r.some THEN r.last ELSE r.axis],
                    heap |-> IF r.some
                             THEN [r.heap EXCEPT ![self.flexes] = Uniform(Len(self.members))]
                             ELSE r.heap]
              ELSE PaneAxis_remove_scan(self, heap, idx + 1, pane_to_remove)
         ELSE IF member.pane = pane_to_remove
              THEN [found_pane |-> TRUE, remove_member |-> idx,
                    axis |-> self, heap |-> heap]
              ELSE PaneAxis_remove_scan(self, heap, idx + 1, pane_to_remove)

PaneAxis_remove_scan(self, heap, idx, pane_to_remove) ==
    IF idx >= Len(self.members)
    THEN [found_pane |-> FALSE, remove_member |-> -1, axis |-> self, heap |-> heap]
    ELSE LET member == self.members[idx + 1] IN
         IF member.kind = "Axis"
         THEN LET r == PaneAxis_remove(member, heap, pane_to_remove) IN
              IF r.ok
              THEN [found_pane |-> TRUE, remove_member |-> -1,
                    axis |-> [self EXCEPT !.members[idx + 1] =
                                  IF r.some THEN r.last ELSE r.axis],
                    heap |-> r.heap]
              ELSE PaneAxis_remove_scan(self, heap, idx + 1, pane_to_remove)
         ELSE IF member.pane = pane_to_remove
              THEN [found_pane |-> TRUE, remove_member |-> idx,
                    axis |-> self, heap |-> heap]
              ELSE PaneAxis_remove_scan(self, heap, idx + 1, pane_to_remove)

\* mutant: an axis left with one member is kept, no collapse is signalled
PaneAxis_remove_keeps_singleton(self, heap, pane_to_remove) ==
    LET s == PaneAxis_remove_scan(self, heap, 0, pane_to_remove) IN
    IF s.found_pane
    THEN LET ms == IF s.remove_member # -1
                   THEN VecRemove(s.axis.members, s.remove_member)
                   ELSE s.axis.members
             h == IF s.remove_member # -1
                  THEN [s.heap EXCEPT ![self.flexes] = Uniform(Len(ms))]
                  ELSE s.heap
         IN  [ok |-> TRUE, some |-> FALSE, last |-> ms[1],
              axis |-> [s.axis EXCEPT !.members = ms], heap |-> h]
    ELSE [ok |-> FALSE, some |-> FALSE, last |-> self, axis |-> self, heap |-> heap]

\* mutant: the weight of the removed child is taken out of the vector and the
\* other weights are kept, no reset
PaneAxis_remove_keeps_weights(self, heap, pane_to_remove) ==
    LET s == PaneAxis_remove_scan(self, heap, 0, pane_to_remove) IN
    IF s.found_pane
    THEN LET ms == IF s.remove_member # -1
                   THEN VecRemove(s.axis.members, s.remove_member)
                   ELSE s.axis.members
             h == IF s.remove_member # -1
                  THEN [s.heap EXCEPT ![self.flexes] =
                            VecRemove(s.heap[self.flexes], s.remove_member)]
                  ELSE s.heap
         IN  IF Len(ms) = 1
             THEN [ok |-> TRUE, some |-> TRUE, last |-> ms[1],
                   axis |-> [s.axis EXCEPT !.members = <<>>], heap |-> h]
             ELSE [ok |-> TRUE, some |-> FALSE, last |-> ms[1],
                   axis |-> [s.axis EXCEPT !.members = ms], heap |-> h]
    ELSE [ok |-> FALSE, some |-> FALSE, last |-> self, axis |-> self, heap |-> heap]

\* Returns [ok, some, last, axis, heap]: ok = FALSE is Err("Pane not found");
\* some/last are the Option<Member>; axis is self after the call.
PaneAxis_remove(self, heap, pane_to_remove) ==
    LET s == PaneAxis_remove_scan(self, heap, 0, pane_to_remove) IN
    IF s.found_pane
    THEN LET ms == IF s.remove_member # -1
                   THEN VecRemove(s.axis.members, s.remove_member)
                   ELSE s.axis.members
             h == IF s.remove_member # -1
                  THEN [s.heap EXCEPT ![self.flexes] = Uniform(Len(ms))]
                  ELSE s.heap
         IN  IF Len(ms) = 1
             THEN [ok |-> TRUE, some |-> TRUE, last |-> ms[1],
                   axis |-> [s.axis EXCEPT !.members = <<>>], heap |-> h]
             ELSE [ok |-> TRUE, some |-> FALSE, last |-> ms[1],
                   axis |-> [s.axis EXCEPT !.members = ms], heap |-> h]
    ELSE [ok |-> FALSE, some |-> FALSE, last |-> self, axis |-> self, heap |-> heap]

\* --------------------------------------------------------------- PaneGroup
\* An Rc is freed when its last owner goes: only the vectors the tree (and,
\* below, the registered closures) still hold are kept.
Live(heap, owners) == [rc \in (DOMAIN heap) \cap owners |-> heap[rc]]

\* mutant: the error of the root axis's split is dropped
PaneGroup_split_ignores_err(r, heap, old_pane, new_pane, direction) ==
    IF r.kind = "Pane"
    THEN IF r.pane = old_pane
         THEN LET n == Member_new_axis(old_pane, new_pane, direction, new_pane)
              IN  [result |-> "Ok", root |-> n.member, heap |-> (new_pane :> n.vec) @@ heap]
         ELSE [result |-> "NotFound", root |-> r, heap |-> heap]
    ELSE LET s == PaneAxis_split(r, heap, old_pane, new_pane, direction) IN
         [result |-> "Ok", root |-> s.axis, heap |-> s.heap]

\* PaneGroup::split: [result, root, heap]
PaneGroup_split(r, heap, old_pane, new_pane, direction) ==
    IF r.kind = "Pane"
    THEN IF r.pane = old_pane
         THEN LET n == Member_new_axis(old_pane, new_pane, direction, new_pane)
              IN  [result |-> "Ok", root |-> n.member, heap |-> (new_pane :> n.vec) @@ heap]
         ELSE [result |-> "NotFound", root |-> r, heap |-> heap]
    ELSE LET s == PaneAxis_split(r, heap, old_pane, new_pane, direction) IN
         IF s.ok
         THEN [result |-> "Ok", root |-> s.axis, heap |-> s.heap]
         ELSE [result |-> "NotFound", root |-> r, heap |-> heap]

\* mutant: a lone root that is the pane to remove is reported as removed
PaneGroup_remove_lone_reports_removed(r, heap, pane) ==
    IF r.kind = "Pane"
    THEN [result |-> IF r.pane = pane THEN "Ok(true)" ELSE "Ok(false)",
          root |-> r, heap |-> heap]
    ELSE LET s == PaneAxis_remove(r, heap, pane) IN
         IF ~s.ok
         THEN [result |-> "NotFound", root |-> r, heap |-> heap]
         ELSE [result |-> "Ok(true)",
               root |-> IF s.some THEN s.last ELSE s.axis,
               heap |-> s.heap]

\* mutant: the survivor the root axis hands back is dropped and the emptied
\* axis stays the root
PaneGroup_remove_drops_last(r, heap, pane) ==
    IF r.kind = "Pane"
    THEN [result |-> "Ok(false)", root |-> r, heap |-> heap]
    ELSE LET s == PaneAxis_remove(r, heap, pane) IN
         IF ~s.ok
         THEN [result |-> "NotFound", root |-> r, heap |-> heap]
         ELSE [result |-> "Ok(true)", root |-> s.axis, heap |-> s.heap]

\* PaneGroup::remove: [result, root, heap]
PaneGroup_remove(r, heap, pane) ==
    IF r.kind = "Pane"
    THEN [result |-> "Ok(false)", root |-> r, heap |-> heap]
    ELSE LET s == PaneAxis_remove(r, heap, pane) IN
         IF ~s.ok
         THEN [result |-> "NotFound", root |-> r, heap |-> heap]
         ELSE [result |-> "Ok(true)",
               root |-> IF s.some THEN s.last ELSE s.axis,
               heap |-> s.heap]

\* ------------------------------------------------- PaneAxisElement
HORIZONTAL_MIN_SIZE == 80
VERTICAL_MIN_SIZE == 100

Along(v, axis) == IF axis = "Horizontal" THEN v.x ELSE v.y

RECURSIVE SumFlex(_)
SumFlex(vec) == IF vec = <<>> THEN Rat(0) ELSE RAdd(vec[1], SumFlex(Tail(vec)))

\* layout_flex_children: the span each child is offered, in child order.
\* The constraint of a child is tight along the axis (min = max = child_size),
\* so every child reports exactly the span it was offered.
RECURSIVE layout_flex_children(_, _, _, _)
layout_flex_children(vec, ix, remaining_space, remaining_flex) ==
    IF ix >= Len(vec) THEN [sizes |-> <<>>, remaining_space |-> remaining_space]
    ELSE LET flex == vec[ix + 1]
             child_size == IF remaining_flex = Rat(0)
                           THEN remaining_space
                           ELSE RMul(RDiv(remaining_space, remaining_flex), flex)
             rest == layout_flex_children(vec, ix + 1,
                                          RSub(remaining_space, child_size),
                                          RSub(remaining_flex, flex))
         IN  [sizes |-> <<child_size>> \o rest.sizes,
              remaining_space |-> rest.remaining_space]

\* PaneAxisElement::layout: the children's spans and the remaining space
PaneAxisElement_layout(vec, max_along) ==
    layout_flex_children(vec, 0, max_along, SumFlex(vec))

\* sum of the first n child sizes
RECURSIVE Offset(_, _)
Offset(sizes, n) == IF n = 0 THEN Rat(0) ELSE RAdd(Offset(sizes, n - 1), sizes[n])

\* PaneAxisElement::paint: the on_drag closures registered for the dividers of
\* every axis of the tree, each with the values it captures.  origin and size
\* are the bounds of the member.
RECURSIVE PaneAxisElement_paint(_, _, _, _)
PaneAxisElement_paint(member, heap, origin, size) ==
    IF member.kind = "Pane" THEN {}
    ELSE LET axis == member.axis
             vec == heap[member.flexes]
             sizes == PaneAxisElement_layout(vec, Along(size, axis)).sizes
             n == Len(member.members)
             child_origin(ix) ==
                 IF axis = "Horizontal"
                 THEN [x |-> RAdd(origin.x, Offset(sizes, ix)), y |-> origin.y]
                 ELSE [x |-> origin.x, y |-> RAdd(origin.y, Offset(sizes, ix))]
             child_bounds(ix) ==
                 IF axis = "Horizontal"
                 THEN [x |-> sizes[ix + 1], y |-> size.y]
                 ELSE [x |-> size.x, y |-> sizes[ix + 1]]
             own == {[flexes |-> member.flexes,
                      axis |-> axis,
                      ix |-> ix,
                      next_ix |-> ix + 1,
                      child_size |-> sizes[ix + 1],
                      next_child_size |-> sizes[ix + 2],
                      child_start |-> Along(child_origin(ix), axis),
                      drag_bounds |-> Along(size, axis),
                      current_flex |-> vec[ix + 1],
                      next_flex |-> vec[ix + 2]] : ix \in 0..(n - 2)}
         IN  own \cup UNION {PaneAxisElement_paint(member.members[ix + 1], heap,
                                                   child_origin(ix), child_bounds(ix))
                             : ix \in 0..(n - 1)}

\* ------------------------------------------------------------------- f32
\* The layout pass once more in the arithmetic of the source: an f32 is
\* [m, e], the value m * 2^e with 2^23 <= |m| < 2^24 (m = 0, e = 0 for 0.0),
\* and every operation rounds its exact result to nearest, ties to even.
\* (Subnormals, infinities and NaN do not occur for the spans and weights
\* measured here.)
F32_MANTISSA_BITS == 24
F32_GUARD_BITS == 5

F32Zero == [m |-> 0, e |-> 0]

Sgn(n) == IF n < 0 THEN -1 ELSE IF n > 0 THEN 1 ELSE 0

RECURSIVE BitLen(_)
BitLen(n) == IF n = 0 THEN 0 ELSE 1 + BitLen(n \div 2)

\* q with its lowest bit set when bits below it were dropped (sticky bit)
Jam(q, inexact) == IF inexact /\ q % 2 = 0 THEN q + 1 ELSE q

\* sign * big * 2^e rounded to 24 significant bits, big > 0
F32Round(sign, big, e) ==
    LET len == BitLen(big) IN
    IF len <= F32_MANTISSA_BITS
    THEN [m |-> sign * big * 2^(F32_MANTISSA_BITS - len),
          e |-> e - (F32_MANTISSA_BITS - len)]
    ELSE LET s == len - F32_MANTISSA_BITS
             q == big \div 2^s
             r == big % 2^s
             half == 2^(s - 1)
             q1 == IF r > half \/ (r = half /\ q % 2 = 1) THEN q + 1 ELSE q
         IN  IF q1 = 2^F32_MANTISSA_BITS
             THEN [m |-> sign * 2^(F32_MANTISSA_BITS - 1), e |-> e + s + 1]
             ELSE [m |-> sign * q1, e |-> e + s]

\* an integer literal as f32 (exact below 2^24)
F32(n) == IF n = 0 THEN F32Zero ELSE F32Round(Sgn(n), Abs(n), 0)

F32Neg(a) == [m |-> -a.m, e |-> a.e]

\* a + b
F32Add(a, b) ==
    IF a.m = 0 THEN b
    ELSE IF b.m = 0 THEN a
    ELSE LET hi == IF a.e >= b.e THEN a ELSE b
             lo == IF a.e >= b.e THEN b ELSE a
             k == hi.e - lo.e
             big_hi == Abs(hi.m) * 2^F32_GUARD_BITS
             big_lo == IF k <= F32_GUARD_BITS
                       THEN Abs(lo.m) * 2^(F32_GUARD_BITS - k)
                       ELSE IF k - F32_GUARD_BITS > F32_MANTISSA_BITS
                            THEN 1
                            ELSE Jam(Abs(lo.m) \div 2^(k - F32_GUARD_BITS),
                                     Abs(lo.m) % 2^(k - F32_GUARD_BITS) # 0)
             v == Sgn(hi.m) * big_hi + Sgn(lo.m) * big_lo
         IN  IF v = 0 THEN F32Zero
             ELSE F32Round(Sgn(v), Abs(v), hi.e - F32_GUARD_BITS)

\* a - b
F32Sub(a, b) == F32Add(a, F32Neg(b))

\* a * b: the 48-bit product of the mantissas from 12-bit halves
F32Mul(a, b) ==
    IF a.m = 0 \/ b.m = 0 THEN F32Zero
    ELSE LET a1 == Abs(a.m) \div 4096
             a0 == Abs(a.m) % 4096
             b1 == Abs(b.m) \div 4096
             b0 == Abs(b.m) % 4096
             low == a0 * b0
             mid == a1 * b0 + a0 * b1 + (low \div 4096)
             high == a1 * b1 + (mid \div 4096)
             big == Jam(high * 64 + ((mid % 4096) \div 64),
                        (mid % 4096) % 64 # 0 \/ low % 4096 # 0)
         IN  F32Round(Sgn(a.m) * Sgn(b.m), big, a.e + b.e + 18)

\* n more quotient bits of r / d by long division: <<quotient, remainder>>
RECURSIVE DivBits(_, _, _, _)
DivBits(r, d, n, q) ==
    IF n = 0 THEN <<q, r>>
    ELSE IF 2 * r >= d
         THEN DivBits(2 * r - d, d, n - 1, 2 * q + 1)
         ELSE DivBits(2 * r, d, n - 1, 2 * q)

\* a / b, b # 0
F32Div(a, b) ==
    IF a.m = 0 THEN F32Zero
    ELSE LET qr == DivBits(Abs(a.m) % Abs(b.m), Abs(b.m), 27, Abs(a.m) \div Abs(b.m))
         IN  F32Round(Sgn(a.m) * Sgn(b.m), Jam(qr[1], qr[2] # 0), a.e - b.e - 27)

\* a < b
F32Less(a, b) == F32Sub(a, b).m < 0

F32Max(a, b) == IF F32Less(a, b) THEN b ELSE a

\* remaining_flex of PaneAxisElement::layout: the weights added up from 0.
RECURSIVE F32Sum(_, _)
F32Sum(vec, acc) ==
    IF vec = <<>> THEN acc ELSE F32Sum(Tail(vec), F32Add(acc, Head(vec)))

\* mutant: remaining_flex is not reduced by the flex of the child laid out
RECURSIVE layout_flex_children_f32_keeps_flex(_, _, _, _)
layout_flex_children_f32_keeps_flex(vec, ix, remaining_space, remaining_flex) ==
    IF ix >= Len(vec) THEN [sizes |-> <<>>, remaining_space |-> remaining_space]
    ELSE LET flex == vec[ix + 1]
             child_size == IF remaining_flex = F32Zero
                           THEN remaining_space
                           ELSE F32Mul(F32Div(remaining_space, remaining_flex), flex)
             rest == layout_flex_children_f32_keeps_flex(vec, ix + 1,
                         F32Sub(remaining_space, child_size), remaining_flex)
         IN  [sizes |-> <<child_size>> \o rest.sizes,
              remaining_space |-> rest.remaining_space]

\* layout_flex_children in f32, every child reporting the span it is offered
\* (its constraint has min = max = child_size along the axis)
RECURSIVE layout_flex_children_f32(_, _, _, _)
layout_flex_children_f32(vec, ix, remaining_space, remaining_flex) ==
    IF ix >= Len(vec) THEN [sizes |-> <<>>, remaining_space |-> remaining_space]
    ELSE LET flex == vec[ix + 1]
             child_size == IF remaining_flex = F32Zero
                           THEN remaining_space
                           ELSE F32Mul(F32Div(remaining_space, remaining_flex), flex)
             rest == layout_flex_children_f32(vec, ix + 1,
                         F32Sub(remaining_space, child_size),
                         F32Sub(remaining_flex, flex))
         IN  [sizes |-> <<child_size>> \o rest.sizes,
              remaining_space |-> rest.remaining_space]

\* PaneAxisElement::layout in f32, along the axis: constraint is [min, max];
\* the result is the spans offered, the remaining space and the size of the
\* group (max - remaining_space, raised to min, cut to max).
PaneAxisElement_layout_f32(vec, constraint) ==
    LET l == layout_flex_children_f32(vec, 0, constraint.max, F32Sum(vec, F32Zero))
        size0 == F32Sub(constraint.max, l.remaining_space)
        size1 == F32Max(size0, constraint.min)
    IN  [offered |-> l.sizes,
         remaining_space |-> l.remaining_space,
         size |-> IF F32Less(constraint.max, size1) THEN constraint.max ELSE size1]

\* the weights of an axis of n children, all 1.0, after one tick on its first
\* divider moved it by pixel_change in an axis length pixels long: flex_change
\* and the two target flexes as the closure computes them
drag_flexes_f32(n, pixel_change, length) ==
    LET flex_change == F32Div(F32(pixel_change), F32(length))
    IN  [i \in 1..n |-> IF i = 1 THEN F32Add(F32(1), flex_change)
                        ELSE IF i = 2 THEN F32Sub(F32(1), flex_change)
                        ELSE F32(1)]

\* The on_drag closure of handler h (the values captured at paint) run with
\* drag.position = position along the axis, in the order of the source.

\* min_size
\* mutant: the two minimum sizes the other way round
drag_min_size_swapped(axis) ==
    IF axis = "Horizontal" THEN Rat(VERTICAL_MIN_SIZE) ELSE Rat(HORIZONTAL_MIN_SIZE)

drag_min_size(axis) ==
    IF axis = "Horizontal" THEN Rat(HORIZONTAL_MIN_SIZE) ELSE Rat(VERTICAL_MIN_SIZE)

\* the early return: an element is already too small
drag_returns_early(h) ==
    LET guard == RSub(drag_min_size(h.axis), Rat(1))
    IN  RLess(h.child_size, guard) \/ RLess(h.next_child_size, guard)

\* current_target_size after the clamping
drag_target_size(h, position) ==
    LET min_size == drag_min_size(h.axis)
        target0 == RSub(Rat(position), h.child_start)
        proposed_current_pixel_change == RSub(target0, h.child_size)
    IN  IF RLess(proposed_current_pixel_change, Rat(0))
        THEN RMax(target0, min_size)
        ELSE IF RLess(Rat(0), proposed_current_pixel_change)
             THEN LET next_target_size ==
                          RMax(RSub(h.next_child_size, proposed_current_pixel_change),
                               min_size)
                  IN  RMin(target0,
                           RSub(RAdd(h.child_size, h.next_child_size), next_target_size))
             ELSE target0

\* flex_change
drag_flex_change(h, position) ==
    LET current_pixel_change == RSub(drag_target_size(h, position), h.child_size)
    IN  RDiv(current_pixel_change, h.drag_bounds)

\* mutant: the second write goes to the last flex of the vector instead of
\* the one at next_ix
on_drag_writes_last(h, heap, position) ==
    IF drag_returns_early(h)
    THEN [result |-> "noop", heap |-> heap]
    ELSE LET flex_change == drag_flex_change(h, position)
             current_target_flex == RAdd(h.current_flex, flex_change)
             next_target_flex == RSub(h.next_flex, flex_change)
             vec == heap[h.flexes]
         IN  IF h.ix >= Len(vec)
             THEN [result |-> "panic", heap |-> heap]
             ELSE LET vec1 == [vec EXCEPT ![h.ix + 1] = current_target_flex] IN
                  IF h.next_ix >= Len(vec)
                  THEN [result |-> "panic", heap |-> [heap EXCEPT ![h.flexes] = vec1]]
                  ELSE [result |-> "Ok",
                        heap |-> [heap EXCEPT ![h.flexes] =
                                      [vec1 EXCEPT ![Len(vec)] = next_target_flex]]]

\* the closure: [result, heap].  "noop" is the early return, "panic" the
\* unwrap of get_mut on an index the vector does not have, "Ok" the run that
\* reaches cx.notify().
on_drag(h, heap, position) ==
    IF drag_returns_early(h)
    THEN [result |-> "noop", heap |-> heap]
    ELSE LET flex_change == drag_flex_change(h, position)
             current_target_flex == RAdd(h.current_flex, flex_change)
             next_target_flex == RSub(h.next_flex, flex_change)
             vec == heap[h.flexes]
         IN  IF h.ix >= Len(vec)
             THEN [result |-> "panic", heap |-> heap]
             ELSE LET vec1 == [vec EXCEPT ![h.ix + 1] = current_target_flex] IN
                  IF h.next_ix >= Len(vec)
                  THEN [result |-> "panic", heap |-> [heap EXCEPT ![h.flexes] = vec1]]
                  ELSE [result |-> "Ok",
                        heap |-> [heap EXCEPT ![h.flexes] =
                                      [vec1 EXCEPT ![h.next_ix + 1] = next_target_flex]]]

\* the Rc allocations the registered closures hold
RcsOfHandlers(hs) == {h.flexes : h \in hs}

\* ------------------------------------------------------------------ actions
InitIn(size) ==
    /\ root = MemberPane(1)          \* PaneGroup::new(pane)
    /\ flexes = <<>>
    /\ nextPane = 2
    /\ window = size
    /\ handlers = {}
    /\ ticks = 0
    /\ lastCall = [op |-> "new", pane |-> 1, result |-> "Ok"]

Init == InitIn(WindowSize)

\* a panic aborts the program
Running == lastCall.result # "panic"

\* workspace calls PaneGroup::split(old_pane, new_pane, direction) with a
\* freshly created pane; old_pane and the pane of Remove are panes the
\* workspace created before (closed ones included)
Split ==
    /\ Running
    /\ nextPane <= MaxPanes
    /\ \E old_pane \in 1..(nextPane - 1), direction \in Directions :
         LET s == PaneGroup_split(root, flexes, old_pane, nextPane, direction) IN
         /\ root' = s.root
         /\ flexes' = Live(s.heap, RcsOf(s.root) \cup RcsOfHandlers(handlers))
         /\ nextPane' = IF s.result = "Ok" THEN nextPane + 1 ELSE nextPane
         /\ lastCall' = [op |-> "split", pane |-> old_pane, new |-> nextPane,
                         direction |-> direction, result |-> s.result,
                         before |-> [root |-> root, flexes |-> flexes]]
    /\ UNCHANGED <<window, handlers, ticks>>

\* workspace calls PaneGroup::remove(pane)
Remove ==
    /\ Running
    /\ \E pane \in 1..(nextPane - 1) :
        LET s == PaneGroup_remove(root, flexes, pane) IN
        /\ root' = s.root
        /\ flexes' = Live(s.heap, RcsOf(s.root) \cup RcsOfHandlers(handlers))
        /\ lastCall' = [op |-> "remove", pane |-> pane, result |-> s.result,
                        before |-> [root |-> root, flexes |-> flexes]]
    /\ UNCHANGED <<nextPane, window, handlers, ticks>>

\* a frame: PaneGroup::render builds the elements, then layout and paint run;
\* the scene's mouse regions replace those of the previous frame.  The
\* debug_assert!s of PaneAxis::render and PaneAxisElement::layout fail when an
\* axis has not as many flexes as members.
Render ==
    /\ Running
    /\ IF \A a \in AxesOf(root) : Len(a.members) = Len(flexes[a.flexes])
       THEN /\ handlers' = PaneAxisElement_paint(root, flexes,
                               [x |-> Rat(0), y |-> Rat(0)],
                               [x |-> Rat(window.x), y |-> Rat(window.y)])
            /\ lastCall' = [op |-> "render", result |-> "Ok"]
       ELSE /\ handlers' = handlers
            /\ lastCall' = [op |-> "render", result |-> "panic"]
    /\ flexes' = Live(flexes, RcsOf(root) \cup RcsOfHandlers(handlers'))
    /\ UNCHANGED <<root, nextPane, window, ticks>>

\* a pointer-move event of a drag on the divider of handler h, the pointer at
\* one of positions
Tick(positions) ==
    /\ Running
    /\ \E h \in handlers, position \in positions :
         LET d == on_drag(h, flexes, position) IN
         /\ flexes' = d.heap
         /\ lastCall' = [op |-> "drag", handler |-> h, position |-> position,
                         result |-> d.result]
    /\ ticks' = ticks + 1
    /\ UNCHANGED <<root, nextPane, window, handlers>>

DragTick ==
    /\ (nextPane - 1) + ticks < MaxDragOps
    /\ Tick(Positions)

\* Split in a run with render passes and drags
DragSplit ==
    /\ nextPane <= MaxDragPanes
    /\ nextPane + ticks <= MaxDragOps
    /\ Split

\* split, remove, frames and drag ticks in any order
Next == DragSplit \/ Remove \/ Render \/ DragTick

Spec == Init /\ [][Next]_vars

\* split and remove only
NextTree == Split \/ Remove

SpecTree == Init /\ [][NextTree]_vars

\* split only
SpecSplit == Init /\ [][Split]_vars

\* the drag handler over several window sizes: a few splits, frames and ticks
InitTick == \E w \in TickWindows : InitIn([x |-> w, y |-> w])

TickSplit ==
    /\ nextPane <= MaxTickPanes
    /\ Split

ArithTick ==
    /\ ticks < MaxTicks
    /\ Tick(TickPositions)

NextTick == TickSplit \/ Render \/ ArithTick

SpecTick == InitTick /\ [][NextTick]_vars

\* the measurement pass on its own: an axis of 2 or 3 children whose first
\* divider one tick has moved, measured in a span it divides evenly, under a
\* loose (min 0) or a tight (min = max) constraint
LayoutSpans == {300, 360, 420, 480, 540, 600}
LayoutPixelChanges == {-20, -13, -7, 0, 7, 13, 20}
LayoutChildCounts == {2, 3}

Measure ==
    /\ Running
    /\ \E span \in LayoutSpans, n \in LayoutChildCounts,
          pixel_change \in LayoutPixelChanges, tight \in BOOLEAN :
         LET vec == drag_flexes_f32(n, pixel_change, span)
             constraint == [min |-> IF tight THEN F32(span) ELSE F32Zero,
                            max |-> F32(span)]
             l == PaneAxisElement_layout_f32(vec, constraint)
         IN  lastCall' = [op |-> "layout", result |-> "Ok", flexes |-> vec,
                          constraint |-> constraint, offered |-> l.offered,
                          remaining_space |-> l.remaining_space, size |-> l.size]
    /\ UNCHANGED <<root, flexes, nextPane, window, handlers, ticks>>

SpecLayout == Init /\ [][Measure]_vars

\* ------------------------------------------------------------ properties
One == Rat(1)

\* the panes of a tree as a set
PaneSet(member) == Range(PaneGroup_panes(member))

\* the PaneAxis of the tree that owns the flexes allocation rc
AxisOfRc(tree, rc) == CHOOSE a \in AxesOf(tree) : a.flexes = rc

\* tree with its sub-tree x replaced by y
RECURSIVE Subst(_, _, _)
Subst(member, x, y) ==
    IF member = x THEN y
    ELSE IF member.kind = "Pane" THEN member
    ELSE [member EXCEPT !.members =
              [i \in 1..Len(member.members) |-> Subst(member.members[i], x, y)]]

\* the sequence s without its elements equal to e
Without(s, e) == SelectSeq(s, LAMBDA x : x # e)

IsStructural == lastCall.op \in {"split", "remove"}

\* the axes of the tree the last call ran on that have the pane of the call as
\* a direct leaf child
ParentsBefore ==
    {a \in AxesOf(lastCall.before.root) :
        \E i \in 1..Len(a.members) : a.members[i] = MemberPane(lastCall.pane)}

\* 0-based index of the pane of the call in the child list of axis a
IndexIn(a) == (CHOOSE i \in 1..Len(a.members) : a.members[i] = MemberPane(lastCall.pane)) - 1

\* C1: in every state reachable from PaneGroup::new by split and remove
\* calls, every Member::Axis of the tree has at least 2 children.
C1_AxisHasTwoChildren ==
    \A a \in AxesOf(root) : Len(a.members) >= 2

\* a remove took a leaf out of a 2-child axis, nested or root
C1_Witness ==
    /\ lastCall.op = "remove"
    /\ lastCall.result = "Ok(true)"
    /\ \E a \in ParentsBefore : Len(a.members) = 2 /\ a # lastCall.before.root

\* C2: after any sequence of split, remove and drag ticks every PaneAxis of
\* the tree has as many flex weights as children, and the debug_assert! of
\* a render or layout pass never fails.
C2_FlexesMatchMembers ==
    /\ \A a \in AxesOf(root) : Len(a.members) = Len(flexes[a.flexes])
    /\ ~(lastCall.op = "render" /\ lastCall.result = "panic")

\* a frame rendered a 3-child axis whose weights a drag had changed
C2_Witness ==
    /\ lastCall.op = "render"
    /\ lastCall.result = "Ok"
    /\ ticks >= 1
    /\ \E a \in AxesOf(root) :
           Len(a.members) = 3 /\ flexes[a.flexes] # Uniform(3)

\* C3: when remove(p) takes p out of a 2-child axis, the axis disappears and
\* its surviving member, unchanged, takes its place: as the root if the axis
\* was the root, else at the child index the axis had in its parent.
C3_CollapseSplicesSurvivor ==
    (lastCall.op = "remove") =>
        \A a \in ParentsBefore :
            Len(a.members) = 2 =>
                /\ lastCall.result = "Ok(true)"
                /\ root = Subst(lastCall.before.root, a, a.members[2 - IndexIn(a)])
                /\ a.flexes \notin RcsOf(root)

\* the collapsed axis was nested and its survivor is itself an axis
C3_Witness ==
    /\ lastCall.op = "remove"
    /\ \E a \in ParentsBefore :
           /\ Len(a.members) = 2
           /\ a # lastCall.before.root
           /\ a.members[2 - IndexIn(a)].kind = "Axis"

\* C4: on a tree whose root is an axis, remove(p) of a pane p of panes()
\* returns Ok(true) and panes() afterwards is the previous panes() with p
\* deleted, the other panes in the same order.
C4_RemoveDeletesFromPanes ==
    (/\ lastCall.op = "remove"
     /\ lastCall.before.root.kind = "Axis"
     /\ lastCall.pane \in PaneSet(lastCall.before.root)) =>
        /\ lastCall.result = "Ok(true)"
        /\ PaneGroup_panes(root) =
               Without(PaneGroup_panes(lastCall.before.root), lastCall.pane)

\* H[A, V[B, C]] minus B has panes() = [A, C]
C4_Witness ==
    /\ lastCall.op = "remove"
    /\ lastCall.pane = 2
    /\ lastCall.before.root.kind = "Axis"
    /\ lastCall.before.root.axis = "Horizontal"
    /\ Len(lastCall.before.root.members) = 2
    /\ lastCall.before.root.members[1] = MemberPane(1)
    /\ lastCall.before.root.members[2].kind = "Axis"
    /\ lastCall.before.root.members[2].axis = "Vertical"
    /\ lastCall.before.root.members[2].members = <<MemberPane(2), MemberPane(3)>>
    /\ PaneGroup_panes(root) = <<1, 3>>

\* C5: on every reachable tree, a lone root pane included, remove(p) of a
\* pane p that is not in panes() fails with NotFound and leaves the tree and
\* the flex weights unchanged.
C5_RemoveAbsentFails ==
    (/\ lastCall.op = "remove"
     /\ lastCall.pane \notin PaneSet(lastCall.before.root)) =>
        /\ lastCall.result = "NotFound"
        /\ root = lastCall.before.root
        /\ flexes = lastCall.before.flexes

\* C6: split(old, new, direction) with old not in panes() fails with NotFound
\* for every direction and leaves the tree and the flex weights unchanged.
C6_SplitAbsentFails ==
    (/\ lastCall.op = "split"
     /\ lastCall.pane \notin PaneSet(lastCall.before.root)) =>
        /\ lastCall.result = "NotFound"
        /\ root = lastCall.before.root
        /\ flexes = lastCall.before.flexes
        /\ lastCall.new \notin PaneSet(root)

\* a split against a closed pane on a tree whose root is an axis
C6_Witness ==
    /\ lastCall.op = "split"
    /\ lastCall.pane \notin PaneSet(lastCall.before.root)
    /\ lastCall.before.root.kind = "Axis"

\* C7: splitting a lone root pane P with N makes the root a 2-child axis with
\* both weights 1.0: Right -> Horizontal [P, N], Left -> Horizontal [N, P],
\* Up -> Vertical [N, P], Down -> Vertical [P, N].
C7_SplitLoneRoot ==
    (/\ lastCall.op = "split"
     /\ lastCall.before.root = MemberPane(lastCall.pane)) =>
        LET P == MemberPane(lastCall.pane)
            N == MemberPane(lastCall.new)
            d == lastCall.direction
        IN  /\ lastCall.result = "Ok"
            /\ root.kind = "Axis"
            /\ d = "Right" => root.axis = "Horizontal" /\ root.members = <<P, N>>
            /\ d = "Left" => root.axis = "Horizontal" /\ root.members = <<N, P>>
            /\ d = "Up" => root.axis = "Vertical" /\ root.members = <<N, P>>
            /\ d = "Down" => root.axis = "Vertical" /\ root.members = <<P, N>>
            /\ flexes[root.flexes] = <<One, One>>

\* a lone root was split upwards
C7_Witness ==
    /\ lastCall.op = "split"
    /\ lastCall.before.root = MemberPane(lastCall.pane)
    /\ lastCall.direction = "Up"
    /\ root.kind = "Axis"

\* C8: when split matches old as a direct leaf child at index k of an axis
\* of orientation direction.axis(), no nested axis is created: the axis gains
\* one child, new sits at k (Up/Left, old at k+1) or at k+1 (Down/Right, old
\* at k), the other children keep their order, and every flex weight of the
\* axis is 1.0 whatever the weights were.
C8_SameAxisSplitAddsSibling ==
    (lastCall.op = "split") =>
        \A a \in ParentsBefore :
            SplitDirection_axis(lastCall.direction) = a.axis =>
                LET k == IndexIn(a)
                    post == AxisOfRc(root, a.flexes)
                    P == MemberPane(lastCall.pane)
                    N == MemberPane(lastCall.new)
                IN  /\ lastCall.result = "Ok"
                    /\ RcsOf(root) = RcsOf(lastCall.before.root)
                    /\ Len(post.members) = Len(a.members) + 1
                    /\ post.axis = a.axis
                    /\ IF lastCall.direction \in {"Up", "Left"}
                       THEN post.members[k + 1] = N /\ post.members[k + 2] = P
                       ELSE post.members[k + 1] = P /\ post.members[k + 2] = N
                    /\ Without(post.members, N) = a.members
                    /\ root = Subst(lastCall.before.root, a, post)
                    /\ \A i \in 1..Len(flexes[a.flexes]) : flexes[a.flexes][i] = One
                    /\ Len(flexes[a.flexes]) = Len(post.members)

\* a sibling was added to an axis whose weights a drag had changed
C8_Witness ==
    /\ lastCall.op = "split"
    /\ lastCall.result = "Ok"
    /\ \E a \in ParentsBefore :
           /\ SplitDirection_axis(lastCall.direction) = a.axis
           /\ lastCall.before.flexes[a.flexes] # Uniform(Len(a.members))

\* C9: when split matches old as a direct leaf child of an axis of another
\* orientation than direction.axis(), only that child is replaced, by a
\* fresh 2-child axis of orientation direction.axis() with flexes [1.0, 1.0]
\* ordered per increasing(); the containing axis keeps its child count, its
\* other children and its flex weights as they were.
C9_CrossAxisSplitWrapsChild ==
    (lastCall.op = "split") =>
        \A a \in ParentsBefore :
            SplitDirection_axis(lastCall.direction) # a.axis =>
                LET k == IndexIn(a)
                    post == AxisOfRc(root, a.flexes)
                    P == MemberPane(lastCall.pane)
                    N == MemberPane(lastCall.new)
                    sub == post.members[k + 1]
                IN  /\ lastCall.result = "Ok"
                    /\ Len(post.members) = Len(a.members)
                    /\ post.axis = a.axis
                    /\ \A i \in 1..Len(a.members) :
                           i # k + 1 => post.members[i] = a.members[i]
                    /\ sub.kind = "Axis"
                    /\ sub.axis = SplitDirection_axis(lastCall.direction)
                    /\ sub.members = IF SplitDirection_increasing(lastCall.direction)
                                     THEN <<P, N>> ELSE <<N, P>>
                    /\ sub.flexes \notin RcsOf(lastCall.before.root)
                    /\ flexes[sub.flexes] = <<One, One>>
                    /\ root = Subst(lastCall.before.root, a, post)
                    /\ flexes[a.flexes] = lastCall.before.flexes[a.flexes]

\* a child was wrapped in an axis whose weights a drag had changed
C9_Witness ==
    /\ lastCall.op = "split"
    /\ lastCall.result = "Ok"
    /\ \E a \in ParentsBefore :
           /\ SplitDirection_axis(lastCall.direction) # a.axis
           /\ flexes[a.flexes] # Uniform(Len(a.members))

\* C10: for every drag tick on the divider between child i and child i+1, in
\* any sequence of events, flex[i] + flex[i+1] read immediately before the
\* tick equals flex[i] + flex[i+1] immediately after it.
C10_PairSumConserved ==
    [][(/\ lastCall'.op = "drag"
        /\ lastCall'.handler.next_ix < Len(flexes[lastCall'.handler.flexes])) =>
           LET h == lastCall'.handler IN
           RAdd(flexes'[h.flexes][h.ix + 1], flexes'[h.flexes][h.next_ix + 1]) =
               RAdd(flexes[h.flexes][h.ix + 1], flexes[h.flexes][h.next_ix + 1])]_vars

\* the tick of the last call: its handler, the size it gives child i and the
\* size that leaves child i+1
TickHandler == lastCall.handler
TickTargetSize == drag_target_size(lastCall.handler, lastCall.position)
TickNextSize ==
    RSub(RAdd(lastCall.handler.child_size, lastCall.handler.next_child_size),
         TickTargetSize)
TickRan == lastCall.op = "drag" /\ lastCall.result = "Ok"

\* C11: for every pointer position, a drag tick never produces a target size
\* for child i, or a resulting size for child i+1, that is both smaller than
\* that child's size before the tick and below the minimum size of the axis.
C11_NoShrinkBelowMinimum ==
    TickRan =>
        LET h == TickHandler
            min_size == drag_min_size(h.axis)
        IN  /\ ~(RLess(TickTargetSize, h.child_size) /\ RLess(TickTargetSize, min_size))
            /\ ~(RLess(TickNextSize, h.next_child_size) /\ RLess(TickNextSize, min_size))

\* C12: the sum of the flex weights of an axis is the same before and after
\* any drag tick on any of its dividers, with or without render passes in
\* between; hence in every reachable state the sum of the flex weights of an
\* axis equals its number of children (while the program runs: the state a
\* panic leaves behind is not counted).
C12_TotalFlexIsChildCount ==
    Running =>
        \A a \in AxesOf(root) : SumFlex(flexes[a.flexes]) = Rat(Len(a.members))

\* C13: if, at a drag tick, the size of child i or of child i+1 along the
\* resize axis is below the minimum size of the axis, the tick is a no-op: no
\* flex weight changes and no re-layout is requested.
C13_BelowMinimumTickIsNoOp ==
    [][(/\ lastCall'.op = "drag"
        /\ LET h == lastCall'.handler
               min_size == drag_min_size(h.axis)
           IN  RLess(h.child_size, min_size) \/ RLess(h.next_child_size, min_size)) =>
           /\ flexes' = flexes
           /\ lastCall'.result = "noop"]_vars

\* the axes of the tree the last split or remove ran on whose flex weights are
\* not what they were before the call (a vector freed with its axis counts)
FlexesChanged ==
    {a \in AxesOf(lastCall.before.root) :
        \/ a.flexes \notin DOMAIN flexes
        \/ flexes[a.flexes] # lastCall.before.flexes[a.flexes]}

\* C15: a split or remove changes the flex weights of at most one axis, the
\* one whose child list gains or loses a child; the flex weights of every
\* ancestor axis and of every other axis are exactly as they were, also when
\* a nested axis collapses and its survivor is spliced into the parent.
C15_EditResetsOnlyEditedAxis ==
    IsStructural =>
        /\ Cardinality(FlexesChanged) <= 1
        /\ \A a \in FlexesChanged :
               /\ a \in ParentsBefore
               /\ a.flexes \in RcsOf(root) =>
                      Len(AxisOfRc(root, a.flexes).members) # Len(a.members)

\* a nested axis collapsed into a parent whose weights a drag had changed,
\* and the parent still has those weights
C15_Witness ==
    /\ lastCall.op = "remove"
    /\ lastCall.result = "Ok(true)"
    /\ lastCall.before.root.kind = "Axis"
    /\ \E a \in ParentsBefore :
           /\ a # lastCall.before.root
           /\ Len(a.members) = 2
    /\ root.kind = "Axis"
    /\ root.flexes = lastCall.before.root.flexes
    /\ flexes[root.flexes] # Uniform(Len(root.members))
    /\ flexes[root.flexes] = lastCall.before.flexes[root.flexes]

\* C16: a drag tick on the divider between child i and child i+1 of an axis
\* changes nothing except flex[i] and flex[i+1] of that axis: the tree (every
\* axis's orientation, children and their order), every other flex weight of
\* that axis and the flex weights of every other axis are unchanged.
C16_TickWritesOnlyItsPair ==
    [][(lastCall'.op = "drag") =>
           LET h == lastCall'.handler IN
           /\ root' = root
           /\ DOMAIN flexes' = DOMAIN flexes
           /\ \A rc \in DOMAIN flexes :
                  /\ Len(flexes'[rc]) = Len(flexes[rc])
                  /\ \A k \in 1..Len(flexes[rc]) :
                         (rc # h.flexes \/ k \notin {h.ix + 1, h.next_ix + 1}) =>
                             flexes'[rc][k] = flexes[rc][k]]_vars

\* a tick moved the first divider of a 3-child axis of the tree
C16_Witness ==
    /\ lastCall.op = "drag"
    /\ lastCall.result = "Ok"
    /\ lastCall.handler.flexes \in RcsOf(root)
    /\ lastCall.handler.ix = 0
    /\ Len(flexes[lastCall.handler.flexes]) = 3
    /\ flexes[lastCall.handler.flexes][1] # lastCall.handler.current_flex

\* the sequence s with e put immediately before (after = FALSE) or immediately
\* after (after = TRUE) its element x
InsertedNextTo(s, x, e, after) ==
    LET k == CHOOSE i \in 1..Len(s) : s[i] = x
        cut == IF after THEN k ELSE k - 1
    IN  SubSeq(s, 1, cut) \o <<e>> \o SubSeq(s, cut + 1, Len(s))

\* C17: for every reachable tree, every pane old of panes(), every fresh pane
\* new and every direction, split(old, new, direction) succeeds and panes()
\* afterwards is the previous panes() with new inserted immediately before old
\* (Up/Left) or immediately after old (Down/Right), whether the split added a
\* sibling, wrapped old in a nested axis or replaced a lone root.
C17_SplitInsertsNextToOld ==
    (/\ lastCall.op = "split"
     /\ lastCall.pane \in PaneSet(lastCall.before.root)) =>
        /\ lastCall.result = "Ok"
        /\ PaneGroup_panes(root) =
               InsertedNextTo(PaneGroup_panes(lastCall.before.root),
                              lastCall.pane, lastCall.new,
                              lastCall.direction \in {"Down", "Right"})

\* Up on a pane inside a Horizontal axis, not the first of panes(): old is
\* wrapped and new lands just before it
C17_Witness ==
    /\ lastCall.op = "split"
    /\ lastCall.result = "Ok"
    /\ lastCall.direction = "Up"
    /\ \E a \in ParentsBefore : a.axis = "Horizontal"
    /\ PaneGroup_panes(lastCall.before.root)[1] # lastCall.pane
    /\ \E i \in 2..Len(PaneGroup_panes(root)) :
           /\ PaneGroup_panes(root)[i - 1] = lastCall.new
           /\ PaneGroup_panes(root)[i] = lastCall.pane

\* C18: in every state reachable by splits whose new pane is not already in
\* the tree and by removes, no pane appears at more than one leaf: panes() has
\* no duplicates.
C18_NoPaneTwice ==
    LET ps == PaneGroup_panes(root) IN
    \A i, j \in 1..Len(ps) : i # j => ps[i] # ps[j]

\* four panes, one of them under a nested axis, and a pane taken out again
C18_Witness ==
    /\ lastCall.op = "remove"
    /\ lastCall.result = "Ok(true)"
    /\ Len(PaneGroup_panes(lastCall.before.root)) = MaxPanes
    /\ root.kind = "Axis"
    /\ \E i \in 1..Len(root.members) : root.members[i].kind = "Axis"

C20_PanesNeverEmpty ==
    Len(PaneGroup_panes(root)) >= 1

\* a remove collapsed a 2-child root axis: one pane is left, as the root
C20_Witness ==
    /\ lastCall.op = "remove"
    /\ lastCall.result = "Ok(true)"
    /\ lastCall.before.root.kind = "Axis"
    /\ root.kind = "Pane"

\* the tick of the last call: where the pointer is from the start of child i,
\* and the size of child i that the flex written for it stands for
TickPointerSize == RSub(Rat(lastCall.position), lastCall.handler.child_start)
TickAppliedSize ==
    LET h == lastCall.handler IN
    RAdd(h.child_size,
         RMul(RSub(flexes[h.flexes][h.ix + 1], h.current_flex), h.drag_bounds))

\* C21 as stated: the minimum size enforced by drag-resize is distinct per
\* axis, and the one of a Horizontal axis is larger than the one of a Vertical
\* axis.
C21_HorizontalFloorLarger ==
    (lastCall.op = "drag") =>
        /\ drag_min_size("Horizontal") # drag_min_size("Vertical")
        /\ RLess(drag_min_size("Vertical"), drag_min_size("Horizontal"))

\* C21, amended: the minimum size enforced by drag-resize is distinct per
\* axis, and the one of a Vertical axis (100) is larger than the one of a
\* Horizontal axis (80): a tick that pulls child i under 80 px leaves it
\* HORIZONTAL_MIN_SIZE wide in a Horizontal axis and VERTICAL_MIN_SIZE high in
\* a Vertical axis.
C21_VerticalFloorLarger ==
    /\ HORIZONTAL_MIN_SIZE < VERTICAL_MIN_SIZE
    /\ (/\ TickRan
        /\ RLess(TickPointerSize, lastCall.handler.child_size)
        /\ RLess(TickPointerSize, Rat(HORIZONTAL_MIN_SIZE))) =>
           TickAppliedSize = IF lastCall.handler.axis = "Horizontal"
                             THEN Rat(HORIZONTAL_MIN_SIZE)
                             ELSE Rat(VERTICAL_MIN_SIZE)

\* a 150 px child of a Vertical axis was pulled to the top and stopped at 100
C21_Witness ==
    /\ TickRan
    /\ lastCall.handler.axis = "Vertical"
    /\ lastCall.handler.child_size = Rat(150)
    /\ lastCall.position = 0
    /\ TickAppliedSize = Rat(100)

\* C22: on every drag tick that is not a no-op, the size finally applied to
\* child i is at least the minimum size of the axis and at most (size of
\* child i + size of child i+1) minus that minimum, for every pointer position
\* and every pair of child sizes that passes the no-op guard.
C22_AppliedSizeWithinFloors ==
    TickRan =>
        LET h == lastCall.handler
            min_size == drag_min_size(h.axis)
        IN  /\ ~RLess(TickAppliedSize, min_size)
            /\ ~RLess(RSub(RAdd(h.child_size, h.next_child_size), min_size),
                      TickAppliedSize)

\* C23: whenever a divider's drag handler runs, the two indices it writes (ix
\* and ix + 1, fixed at the paint that registered it) are positions of the
\* axis's current flex vector, so the get_mut(..).unwrap() writes never fail,
\* also after a split or remove on that axis since that paint.
C23_HandlerIndicesValid ==
    (lastCall.op = "drag") =>
        /\ lastCall.result # "panic"
        /\ lastCall.handler.next_ix < Len(flexes[lastCall.handler.flexes])

\* C24: when remove(p) deletes a direct leaf child of an axis that had 3 or
\* more children, the axis keeps its remaining children in their previous
\* order, all of its flex weights become 1.0 whatever drags had made of them,
\* and no collapse is signalled: the axis stays in the tree.
C24_RemoveFromWideAxisResets ==
    (lastCall.op = "remove") =>
        \A a \in ParentsBefore :
            Len(a.members) >= 3 =>
                /\ lastCall.result = "Ok(true)"
                /\ a.flexes \in RcsOf(root)
                /\ LET post == AxisOfRc(root, a.flexes) IN
                   /\ post.axis = a.axis
                   /\ post.members = Without(a.members, MemberPane(lastCall.pane))
                   /\ root = Subst(lastCall.before.root, a, post)
                /\ flexes[a.flexes] = Uniform(Len(a.members) - 1)

\* the middle child of a 3-child axis was removed after a drag had changed
\* the axis's weights
C24_Witness ==
    /\ lastCall.op = "remove"
    /\ \E a \in ParentsBefore :
           /\ Len(a.members) = 3
           /\ a.members[2] = MemberPane(lastCall.pane)
           /\ lastCall.before.flexes[a.flexes] # Uniform(3)
           /\ flexes[a.flexes] = Uniform(2)

\* the measurement of the last call: S * flex[i] / total_flex evaluated in
\* f32, and a rounding allowance of S * 2^-20
F32Abs(a) == [m |-> Abs(a.m), e |-> a.e]
MeasuredShare(i) ==
    F32Div(F32Mul(lastCall.constraint.max, lastCall.flexes[i]),
           F32Sum(lastCall.flexes, F32Zero))
MeasureAllowance == [m |-> lastCall.constraint.max.m, e |-> lastCall.constraint.max.e - 20]
WithinAllowance(a, b) == ~F32Less(MeasureAllowance, F32Abs(F32Sub(a, b)))

\* C25 as stated: in the measurement pass over a finite span S with positive
\* flex weights, every child reporting the span it was offered, each child
\* is offered S * flex[i] / total_flex, the remaining space after the last
\* child is 0, and the main-axis size of the group is the constraint maximum.
C25_MeasureIsExact ==
    (lastCall.op = "layout") =>
        /\ \A i \in 1..Len(lastCall.flexes) : lastCall.offered[i] = MeasuredShare(i)
        /\ lastCall.remaining_space = F32Zero
        /\ lastCall.size = lastCall.constraint.max

\* C25, amended: ... each child is offered S * flex[i] / total_flex up to
\* f32 rounding, the remaining space after the last child is 0 up to f32
\* rounding (it can be negative), and the main-axis size of the group is the
\* constraint maximum when the constraint is tight or the remainder is not
\* positive, and the maximum minus the remainder otherwise.  Up to rounding:
\* within S * 2^-20 for the spans and weights measured.
C25_MeasureWithinRounding ==
    (lastCall.op = "layout") =>
        /\ \A i \in 1..Len(lastCall.flexes) :
               WithinAllowance(lastCall.offered[i], MeasuredShare(i))
        /\ WithinAllowance(lastCall.remaining_space, F32Zero)
        /\ lastCall.size =
               IF lastCall.constraint.min = lastCall.constraint.max
                  \/ lastCall.remaining_space.m <= 0
               THEN lastCall.constraint.max
               ELSE F32Sub(lastCall.constraint.max, lastCall.remaining_space)

\* a dragged axis measured under a loose constraint left a positive
\* remainder, and the group is narrower than the span
C25_Witness ==
    /\ lastCall.op = "layout"
    /\ lastCall.flexes[1] # F32(1)
    /\ lastCall.constraint.min = F32Zero
    /\ lastCall.remaining_space.m > 0
    /\ F32Less(lastCall.size, lastCall.constraint.max)

\* C26: in every state reached from a lone pane by split calls only, no axis
\* has a direct child axis of its own orientation.
C26_NoSameAxisChild ==
    \A a \in AxesOf(root) :
        \A i \in 1..Len(a.members) :
            a.members[i].kind = "Axis" => a.members[i].axis # a.axis

\* three levels of axes: an axis under an axis under the root axis
C26_Witness ==
    /\ lastCall.op = "split"
    /\ root.kind = "Axis"
    /\ \E i \in 1..Len(root.members) :
           /\ root.members[i].kind = "Axis"
           /\ \E j \in 1..Len(root.members[i].members) :
                  root.members[i].members[j].kind = "Axis"

====
